---- MODULE Spec2Model ----
(***************************************************************************)
(* Model of the MOQT client control plane: the setup-message codec of      *)
(* moqt/messages/setup.py and the session establishment of                 *)
(* moqt/client.py (MOQTClientProtocol).                                    *)
(*                                                                         *)
(* Unsigned integers that travel on the wire are kept as base-256          *)
(* numerals: a big-endian sequence of bytes without leading zeros, zero    *)
(* being the empty sequence.  Protocol values such as 0xff000007 need up   *)
(* to 62 bits, more than the model checker's integers hold.                *)
(***************************************************************************)
EXTENDS Integers, Sequences, FiniteSets, TLC

VARIABLES
    \* ---- session (MOQTClientProtocol) ----
    wt_session,         \* asyncio.Event _wt_session: transport-session-ready
    moqt_session,       \* asyncio.Event _moqt_session: control-session-ready
    control_stream_id,  \* _control_stream_id: None (0) or the stream's number
    streams_created,    \* control streams created by initialize()
    headers_sent,       \* WebTransport session requests sent
    control_out,        \* messages written on the control channel, in order
    closed,             \* close() has been called
    close_code,         \* error_code of the close() call
    close_reason,       \* reason_phrase of the close() call
    init_pc,            \* where the running initialize() call stands
    init_error,         \* what the last initialize() call raised
    init_calls,         \* initialize() calls started
    elapsed,            \* time-units spent in the current wait_for
    handler_result,     \* outcome of the last handle_server_setup call
    handler_saw_set,    \* _moqt_session.is_set() when that call began
    moqt_set_count,     \* _moqt_session.set() calls made by the handler
    set_after_client_setup, \* ClientSetup was written before that set() call
    setups_dispatched,  \* ServerSetup messages dispatched
    subscribe_result,   \* outcome of the last subscribe() call
    subscribe_state,    \* session state when that call began
    subscribe_wrote,    \* bytes that call put on the control channel
    subscribes,         \* subscribe() calls made
    timed_out,          \* an initialize() call ended in a timeout
    received_frame,     \* bytes of the last ServerSetup frame received
    received_setup,     \* the ServerSetup decoded from it and dispatched
    subscribe_args,     \* filter and bounds given to the last subscribe()
    subscribe_sends,    \* send_control_message calls that subscribe() made
    call_steps,         \* steps the current initialize() call has executed
    \* ---- codec (messages/setup.py) ----
    c_msg,              \* the message under test
    c_wire,             \* result of c_msg.serialize()
    c_decoded,          \* result of deserialize on the frame's payload
    c_reencoded,        \* result of serialize() on the deserialized message
    c_phase             \* "new" | "serialized" | "decoded" | "reencoded"

session_vars == <<wt_session, moqt_session, control_stream_id, streams_created,
                  headers_sent, control_out, closed, close_code, close_reason,
                  init_pc, init_error, init_calls, elapsed, handler_result,
                  handler_saw_set, moqt_set_count, set_after_client_setup,
                  setups_dispatched, subscribe_result, subscribe_state,
                  subscribe_wrote, subscribes, timed_out, received_frame,
                  received_setup, subscribe_args, subscribe_sends, call_steps>>

codec_vars == <<c_msg, c_wire, c_decoded, c_reencoded, c_phase>>

vars == <<session_vars, codec_vars>>

----------------------------------------------------------------------------
\* Bounds of the model.

MaxInitCalls == 2
MaxSetups == 3
MaxSubscribes == 2
MaxVersions == 2
MaxParams == 2
MaxUriLen == 65

----------------------------------------------------------------------------
\* Protocol constants.

CLIENT_SETUP == 64
SERVER_SETUP == 65
GOAWAY == 16
CLIENT_ROLE == 0
ENDPOINT_PATH == 1
MAX_SUBSCRIBER_ID == 2
BufferCapacity == 32
GoAwayCapacity == 32
UriLenSize == 1
TransportTimeout == 30
HandshakeTimeout == 10

----------------------------------------------------------------------------
\* aioquic.buffer.Buffer as setup.py uses it.

Byte == 0..255

None == [t |-> "None"]
BufferWriteError == [t |-> "error", e |-> "BufferWriteError"]
BufferReadError == [t |-> "error", e |-> "BufferReadError"]
TypeError == [t |-> "error", e |-> "TypeError"]
ValueError == [t |-> "error", e |-> "ValueError"]

IsError(x) == x.t = "error"

RECURSIVE NatToNum(_)
NatToNum(n) == IF n = 0 THEN <<>> ELSE NatToNum(n \div 256) \o <<n % 256>>

RECURSIVE NumToNat(_)
NumToNat(num) ==
    IF num = <<>> THEN 0
    ELSE 256 * NumToNat(SubSeq(num, 1, Len(num) - 1)) + num[Len(num)]

RECURSIVE StripZeros(_)
StripZeros(bs) ==
    IF bs # <<>> /\ bs[1] = 0 THEN StripZeros(Tail(bs)) ELSE bs

Zeros(n) == [i \in 1..n |-> 0]

\* Bytes a numeral needs as a QUIC variable-length integer (0: out of range).
UintVarSize(num) ==
    LET top == IF num = <<>> THEN 0 ELSE num[1]
        fits(w) == Len(num) < w \/ (Len(num) = w /\ top < 64)
    IN  IF fits(1) THEN 1
        ELSE IF fits(2) THEN 2
        ELSE IF fits(4) THEN 4
        ELSE IF fits(8) THEN 8
        ELSE 0

\* Buffer.push_uint_var: the bytes pushed for num.
EncodeUintVar(num) ==
    LET w == UintVarSize(num)
        padded == Zeros(w - Len(num)) \o num
        prefix == CASE w = 1 -> 0 [] w = 2 -> 64 [] w = 4 -> 128 [] OTHER -> 192
    IN  [padded EXCEPT ![1] = @ + prefix]

\* Buffer.pull_uint_var at 1-based position pos of data.
PullUintVar(data, pos) ==
    IF pos > Len(data) THEN BufferReadError
    ELSE LET first == data[pos]
             code == first \div 64
             w == CASE code = 0 -> 1 [] code = 1 -> 2 [] code = 2 -> 4 [] OTHER -> 8
         IN  IF pos + w - 1 > Len(data) THEN BufferReadError
             ELSE [t |-> "ok",
                   val |-> StripZeros(<<first % 64>> \o SubSeq(data, pos + 1, pos + w - 1)),
                   pos |-> pos + w]

\* Buffer.pull_bytes(length) at position pos; the length is a numeral.
PullBytes(data, pos, lenNum) ==
    IF Len(lenNum) > 3 THEN BufferReadError
    ELSE LET n == NumToNat(lenNum)
         IN  IF pos + n - 1 > Len(data) THEN BufferReadError
             ELSE [t |-> "ok", val |-> SubSeq(data, pos, pos + n - 1), pos |-> pos + n]

\* Iterations of "for _ in range(count)" that can matter: every iteration
\* pulls at least two bytes, so one past the data's length always fails.
LoopCount(countNum, data) ==
    IF Len(countNum) > 3 THEN Len(data) + 1
    ELSE IF NumToNat(countNum) > Len(data) + 1 THEN Len(data) + 1
    ELSE NumToNat(countNum)

----------------------------------------------------------------------------
\* Parameter maps (Python dict): a sequence of entries with distinct keys, in
\* insertion order.  A value is bytes, or an int once deserialize decoded it.

BytesVal(bs) == [t |-> "bytes", v |-> bs]
IntVal(num) == [t |-> "int", v |-> num]

DictKeys(d) == {d[i].k : i \in 1..Len(d)}

\* d[key] = value
DictSet(d, key, value) ==
    IF key \in DictKeys(d)
    THEN [i \in 1..Len(d) |-> IF d[i].k = key THEN [k |-> key, v |-> value] ELSE d[i]]
    ELSE Append(d, [k |-> key, v |-> value])

\* d[key], for a key that is present
DictGet(d, key) == d[CHOOSE i \in 1..Len(d) : d[i].k = key].v

\* dict.__eq__: the same keys with the same values, in any order.
DictEq(a, b) == {a[i] : i \in 1..Len(a)} = {b[i] : i \in 1..Len(b)}

----------------------------------------------------------------------------
\* The message classes of messages/setup.py.

\* __post_init__ overwrites whatever type the constructor was given.
ServerSetup_post_init(self) == [self EXCEPT !.type = SERVER_SETUP]

\* A __post_init__ that leaves the type the constructor was given.
ClientSetup_post_init_Keeping(self) == self

ClientSetup_post_init(self) == [self EXCEPT !.type = CLIENT_SETUP]

ServerSetup(type, selected_version, parameters) ==
    ServerSetup_post_init([t |-> "msg", kind |-> "ServerSetup", type |-> type,
                           selected_version |-> selected_version,
                           parameters |-> parameters])

ClientSetup(type, versions, parameters) ==
    ClientSetup_post_init([t |-> "msg", kind |-> "ClientSetup", type |-> type,
                           versions |-> versions, parameters |-> parameters])

GoAway_post_init(self) == [self EXCEPT !.type = GOAWAY]

\* new_session_uri is a str: here the sequence of its code points.
GoAway(type, new_session_uri) ==
    GoAway_post_init([t |-> "msg", kind |-> "GoAway", type |-> type,
                      new_session_uri |-> new_session_uri])

\* The dataclasses' __eq__: the same class and equal fields.
MsgEq(a, b) ==
    /\ a.t = "msg" /\ b.t = "msg"
    /\ a.kind = b.kind
    /\ a.type = b.type
    /\ CASE a.kind = "ClientSetup" ->
                a.versions = b.versions /\ DictEq(a.parameters, b.parameters)
         [] a.kind = "ServerSetup" ->
                a.selected_version = b.selected_version
                /\ DictEq(a.parameters, b.parameters)
         [] OTHER -> a.new_session_uri = b.new_session_uri

\* A Buffer being written: the bytes pushed so far, or the exception raised.
NewBuffer == [t |-> "ok", data |-> <<>>]

\* push_bytes / push_uint_var on a Buffer of the given capacity.
PushBytesCap(buf, bs, capacity) ==
    IF IsError(buf) THEN buf
    ELSE IF Len(buf.data) + Len(bs) > capacity THEN BufferWriteError
    ELSE [t |-> "ok", data |-> buf.data \o bs]

PushUintVarCap(buf, num, capacity) ==
    IF IsError(buf) THEN buf
    ELSE IF UintVarSize(num) = 0 THEN ValueError
    ELSE PushBytesCap(buf, EncodeUintVar(num), capacity)

\* The same on the Buffer(capacity=32) of the setup messages.
PushBytes(buf, bs) == PushBytesCap(buf, bs, BufferCapacity)

PushUintVar(buf, num) == PushUintVarCap(buf, num, BufferCapacity)

\* for param_id, param_value in self.parameters.items(): push id, len, bytes
RECURSIVE PushParameters(_, _)
PushParameters(buf, d) ==
    IF d = <<>> \/ IsError(buf) THEN buf
    ELSE LET e == d[1]
             b1 == PushUintVar(buf, e.k)
             b2 == IF IsError(b1) THEN b1
                   ELSE IF e.v.t # "bytes" THEN TypeError
                   ELSE PushUintVar(b1, NatToNum(Len(e.v.v)))
             b3 == IF IsError(b2) THEN b2 ELSE PushBytes(b2, e.v.v)
         IN  PushParameters(b3, Tail(d))

RECURSIVE PushVersions(_, _)
PushVersions(buf, versions) ==
    IF versions = <<>> \/ IsError(buf) THEN buf
    ELSE PushVersions(PushUintVar(buf, versions[1]), Tail(versions))

\* "Build final message": type, len(payload.data), payload.data
BuildFrame(type, payload) ==
    IF IsError(payload) THEN payload
    ELSE PushBytes(PushUintVar(PushUintVar(NewBuffer, NatToNum(type)),
                               NatToNum(Len(payload.data))),
                   payload.data)

ServerSetup_serialize(self) ==
    LET p1 == PushUintVar(NewBuffer, self.selected_version)
        p2 == PushUintVar(p1, NatToNum(Len(self.parameters)))
        payload == PushParameters(p2, self.parameters)
    IN  BuildFrame(self.type, payload)

ClientSetup_serialize(self) ==
    LET p1 == PushUintVar(NewBuffer, NatToNum(Len(self.versions)))
        p2 == PushVersions(p1, self.versions)
        p3 == PushUintVar(p2, NatToNum(Len(self.parameters)))
        payload == PushParameters(p3, self.parameters)
    IN  BuildFrame(self.type, payload)

\* A loop body without the MAX_SUBSCRIBER_ID branch: every value is stored
\* as the bytes pulled.
PullParameter_Raw(data, pos) ==
    LET id == PullUintVar(data, pos)
    IN  IF IsError(id) THEN id
        ELSE LET ln == PullUintVar(data, id.pos)
             IN  IF IsError(ln) THEN ln
                 ELSE LET pv == PullBytes(data, ln.pos, ln.val)
                      IN  IF IsError(pv) THEN pv
                          ELSE [t |-> "ok", k |-> id.val,
                                v |-> BytesVal(pv.val), pos |-> pv.pos]

\* One pass of the parameter loop's body: pull id, length and value; a
\* MAX_SUBSCRIBER_ID value is replaced by the varint it holds.
PullParameter(data, pos) ==
    LET id == PullUintVar(data, pos)
    IN  IF IsError(id) THEN id
        ELSE LET ln == PullUintVar(data, id.pos)
             IN  IF IsError(ln) THEN ln
                 ELSE LET pv == PullBytes(data, ln.pos, ln.val)
                      IN  IF IsError(pv) THEN pv
                          ELSE IF id.val = NatToNum(MAX_SUBSCRIBER_ID)
                          THEN LET r == PullUintVar(pv.val, 1)
                               IN  IF IsError(r) THEN r
                                   ELSE [t |-> "ok", k |-> id.val,
                                         v |-> IntVal(r.val), pos |-> pv.pos]
                          ELSE [t |-> "ok", k |-> id.val,
                                v |-> BytesVal(pv.val), pos |-> pv.pos]

\* ServerSetup.deserialize's loop: n passes, each storing params[param_id].
RECURSIVE ServerSetup_paramLoop(_, _, _, _)
ServerSetup_paramLoop(data, pos, n, params) ==
    IF n = 0 THEN [t |-> "ok", params |-> params, pos |-> pos]
    ELSE LET p == PullParameter(data, pos)
         IN  IF IsError(p) THEN p
             ELSE ServerSetup_paramLoop(data, p.pos, n - 1, DictSet(params, p.k, p.v))

ServerSetup_deserialize(data) ==
    LET version == PullUintVar(data, 1)
    IN  IF IsError(version) THEN version
        ELSE LET param_count == PullUintVar(data, version.pos)
             IN  IF IsError(param_count) THEN param_count
                 ELSE LET r == ServerSetup_paramLoop(data, param_count.pos,
                                    LoopCount(param_count.val, data), <<>>)
                      IN  IF IsError(r) THEN r
                          ELSE ServerSetup(SERVER_SETUP, version.val, r.params)

RECURSIVE PullVersions(_, _, _, _)
PullVersions(data, pos, n, versions) ==
    IF n = 0 THEN [t |-> "ok", versions |-> versions, pos |-> pos]
    ELSE LET v == PullUintVar(data, pos)
         IN  IF IsError(v) THEN v
             ELSE PullVersions(data, v.pos, n - 1, Append(versions, v.val))

\* ClientSetup.deserialize: the return statement sits inside the parameter
\* loop, so the first pass returns and no pass at all returns None.
ClientSetup_deserialize(data) ==
    LET version_count == PullUintVar(data, 1)
    IN  IF IsError(version_count) THEN version_count
        ELSE LET vs == PullVersions(data, version_count.pos,
                                    LoopCount(version_count.val, data), <<>>)
             IN  IF IsError(vs) THEN vs
                 ELSE LET param_count == PullUintVar(data, vs.pos)
                      IN  IF IsError(param_count) THEN param_count
                          ELSE IF LoopCount(param_count.val, data) = 0 THEN None
                          ELSE LET p == PullParameter(data, param_count.pos)
                               IN  IF IsError(p) THEN p
                                   ELSE ClientSetup(CLIENT_SETUP, vs.versions,
                                                    DictSet(<<>>, p.k, p.v))

\* The caller's part: read the frame's type and length, hand over the payload.
StripFrame(frame) ==
    LET type == PullUintVar(frame, 1)
    IN  IF IsError(type) THEN type
        ELSE LET ln == PullUintVar(frame, type.pos)
             IN  IF IsError(ln) THEN ln
                 ELSE PullBytes(frame, ln.pos, ln.val)

DRAFT_VERSION == <<255, 0, 0, 7>>      \* 0xff000007

UnicodeDecodeError == [t |-> "error", e |-> "UnicodeDecodeError"]

\* str.encode() of one character: UTF-8, for code points below 0x10000.
Utf8EncodeChar(c) ==
    IF c < 128 THEN <<c>>
    ELSE IF c < 2048 THEN <<192 + (c \div 64), 128 + (c % 64)>>
    ELSE <<224 + (c \div 4096), 128 + ((c \div 64) % 64), 128 + (c % 64)>>

\* str.encode(): the characters' encodings, concatenated in order.  The
\* string is halved rather than peeled so that long strings evaluate in
\* logarithmic depth.
RECURSIVE Utf8Encode(_)
Utf8Encode(str) ==
    IF str = <<>> THEN <<>>
    ELSE IF Len(str) = 1 THEN Utf8EncodeChar(str[1])
    ELSE LET half == Len(str) \div 2
         IN  Utf8Encode(SubSeq(str, 1, half)) \o Utf8Encode(SubSeq(str, half + 1, Len(str)))

IsContinuation(bs, i) == i <= Len(bs) /\ bs[i] \in 128..191

\* The number of bytes of the well-formed character that starts at bs[i],
\* or 0 when none starts there.
Utf8Width(bs, i) ==
    LET b == bs[i]
    IN  IF b < 128 THEN 1
        ELSE IF b \in 194..223 /\ IsContinuation(bs, i + 1) THEN 2
        ELSE IF /\ b \in 224..239
                /\ IsContinuation(bs, i + 1) /\ IsContinuation(bs, i + 2)
                /\ (b - 224) * 4096 + (bs[i + 1] - 128) * 64 >= 2048
                /\ (b - 224) * 4096 + (bs[i + 1] - 128) * 64 \notin 55296..57343
        THEN 3
        ELSE 0

\* The code point of the well-formed character that starts at bs[i].
Utf8CodePoint(bs, i) ==
    LET b == bs[i]
    IN  IF b < 128 THEN b
        ELSE IF b \in 194..223 THEN (b - 192) * 64 + (bs[i + 1] - 128)
        ELSE (b - 224) * 4096 + (bs[i + 1] - 128) * 64 + (bs[i + 2] - 128)

\* bytes.decode(): the code points, or UnicodeDecodeError.  The decoder
\* reads one character after the other from the first byte on; it gets
\* through exactly when a well-formed character starts at every byte that
\* is no continuation byte and every continuation byte belongs to the
\* character started before it, and the characters are then those started
\* at the non-continuation bytes, in order.
Utf8Decode(bs) ==
    LET starts == {i \in 1..Len(bs) : bs[i] \notin 128..191}
        owned(i) == \E s \in starts : s < i /\ i < s + Utf8Width(bs, s)
        rank == [s \in starts |-> Cardinality({t \in starts : t <= s})]
        nth(k) == CHOOSE s \in starts : rank[s] = k
    IN  IF /\ \A s \in starts : Utf8Width(bs, s) > 0
           /\ \A i \in (1..Len(bs)) \ starts : owned(i)
        THEN [t |-> "ok",
              val |-> [k \in 1..Cardinality(starts) |-> Utf8CodePoint(bs, nth(k))]]
        ELSE UnicodeDecodeError

\* GoAway.serialize: one Buffer of 32 + len(uri) bytes; the payload size is
\* computed as 1 + the URI's byte length.
GoAway_serialize(self) ==
    LET capacity == GoAwayCapacity + Len(self.new_session_uri)
        uri_bytes == Utf8Encode(self.new_session_uri)
        payload_size == UriLenSize + Len(uri_bytes)
        b1 == PushUintVarCap(NewBuffer, NatToNum(self.type), capacity)
        b2 == PushUintVarCap(b1, NatToNum(payload_size), capacity)
        b3 == PushUintVarCap(b2, NatToNum(Len(uri_bytes)), capacity)
    IN  PushBytesCap(b3, uri_bytes, capacity)

GoAway_deserialize(data) ==
    LET uri_len == PullUintVar(data, 1)
    IN  IF IsError(uri_len) THEN uri_len
        ELSE LET raw == PullBytes(data, uri_len.pos, uri_len.val)
             IN  IF IsError(raw) THEN raw
                 ELSE LET uri == Utf8Decode(raw.val)
                      IN  IF IsError(uri) THEN uri ELSE GoAway(GOAWAY, uri.val)

Serialize(m) ==
    CASE m.kind = "ClientSetup" -> ClientSetup_serialize(m)
      [] m.kind = "ServerSetup" -> ServerSetup_serialize(m)
      [] OTHER -> GoAway_serialize(m)

Deserialize(kind, data) ==
    CASE kind = "ClientSetup" -> ClientSetup_deserialize(data)
      [] kind = "ServerSetup" -> ServerSetup_deserialize(data)
      [] OTHER -> GoAway_deserialize(data)

----------------------------------------------------------------------------
\* The session of MOQTClientProtocol (client.py).

NoStream == 0

ClientSetupWritten ==
    \E i \in 1..Len(control_out) : control_out[i].kind = "ClientSetup"

ClientSetupsWritten ==
    Cardinality({i \in 1..Len(control_out) : control_out[i].kind = "ClientSetup"})

\* The states of the session state machine, read off the object's fields.
SessionState ==
    IF closed THEN "Closed"
    ELSE IF moqt_session THEN "Established"
    ELSE IF ClientSetupWritten THEN "HandshakePending"
    ELSE IF wt_session THEN "TransportReady"
    ELSE IF headers_sent > 0 THEN "TransportPending"
    ELSE "Idle"

\* send_control_message(data): hands the bytes to the control stream; there
\* is nothing to write on while no control stream exists.
send_control_message(out, stream, kind, data) ==
    IF stream = NoStream THEN [t |-> "error", e |-> "RuntimeError", out |-> out]
    ELSE [t |-> "ok", out |-> Append(out, [stream |-> stream, kind |-> kind, data |-> data])]

\* close(error_code, reason_phrase)
Close(error_code, reason_phrase) ==
    /\ closed' = TRUE
    /\ close_code' = error_code
    /\ close_reason' = reason_phrase

\* handle_server_setup without the is_set() test: every ServerSetup sets the
\* flag and returns.
handle_server_setup_Unchecked(is_set) ==
    [moqt_session |-> TRUE, set_calls |-> 1, closes |-> FALSE,
     error_code |-> "", reason_phrase |-> "", result |-> "returned"]

\* handle_server_setup whose violation branch resets the flag on closing.
handle_server_setup_Resetting(is_set) ==
    IF is_set
    THEN [moqt_session |-> FALSE, set_calls |-> 0, closes |-> TRUE,
          error_code |-> "PROTOCOL_VIOLATION",
          reason_phrase |-> "Received duplicate SERVER_SETUP message",
          result |-> "raised"]
    ELSE [moqt_session |-> TRUE, set_calls |-> 1, closes |-> FALSE,
          error_code |-> "", reason_phrase |-> "", result |-> "returned"]

\* handle_server_setup, as a function of _moqt_session.is_set(): the flag's
\* new value, the set() calls made, whether close() is called and with what,
\* and how the call ends.
handle_server_setup(is_set) ==
    IF is_set
    THEN [moqt_session |-> TRUE, set_calls |-> 0, closes |-> TRUE,
          error_code |-> "PROTOCOL_VIOLATION",
          reason_phrase |-> "Received duplicate SERVER_SETUP message",
          result |-> "raised"]
    ELSE [moqt_session |-> TRUE, set_calls |-> 1, closes |-> FALSE,
          error_code |-> "", reason_phrase |-> "", result |-> "returned"]

\* The ServerSetup messages the server answers with; the first is
\* ServerSetup(selected_version=0xff000007, parameters={0x02: varint(10)}).
ScenarioServerSetup ==
    ServerSetup(SERVER_SETUP, DRAFT_VERSION,
                <<[k |-> NatToNum(MAX_SUBSCRIBER_ID), v |-> BytesVal(EncodeUintVar(<<10>>))]>>)

ServerAnswers ==
    {ScenarioServerSetup,
     ServerSetup(SERVER_SETUP, DRAFT_VERSION,
                 <<[k |-> <<33>>, v |-> BytesVal(<<1, 2>>)],
                   [k |-> NatToNum(MAX_SUBSCRIBER_ID),
                    v |-> BytesVal(EncodeUintVar(<<1, 44>>))]>>)}

\* Their frames as they arrive on the control stream.
ServerFrames == {ServerSetup_serialize(m).data : m \in ServerAnswers}

\* A ServerSetup frame arrives: the payload is decoded by
\* ServerSetup.deserialize and the dispatcher hands the message to the
\* registered handler.
DispatchServerSetup ==
    /\ setups_dispatched < MaxSetups
    /\ \E frame \in ServerFrames :
           /\ received_frame' = frame
           /\ received_setup' = ServerSetup_deserialize(StripFrame(frame).val)
    /\ LET h == handle_server_setup(moqt_session)
       IN  /\ moqt_session' = h.moqt_session
           /\ moqt_set_count' = moqt_set_count + h.set_calls
           /\ set_after_client_setup' =
                  IF h.set_calls > 0 THEN ClientSetupWritten ELSE set_after_client_setup
           /\ IF h.closes THEN Close(h.error_code, h.reason_phrase)
              ELSE UNCHANGED <<closed, close_code, close_reason>>
           /\ handler_result' = h.result
    /\ handler_saw_set' = moqt_session
    /\ setups_dispatched' = setups_dispatched + 1
    /\ UNCHANGED <<wt_session, control_stream_id, streams_created, headers_sent,
                   control_out, init_pc, init_error, init_calls, elapsed,
                   subscribe_result, subscribe_state, subscribe_wrote, subscribes,
                   timed_out, subscribe_args, subscribe_sends, call_steps,
                   codec_vars>>

\* The transport collaborator signals that the WebTransport session is up.
WtSessionReady ==
    /\ headers_sent > 0
    /\ ~wt_session
    /\ wt_session' = TRUE
    /\ UNCHANGED <<moqt_session, control_stream_id, streams_created, headers_sent,
                   control_out, closed, close_code, close_reason, init_pc,
                   init_error, init_calls, elapsed, handler_result,
                   handler_saw_set, moqt_set_count, set_after_client_setup,
                   setups_dispatched, subscribe_result, subscribe_state,
                   subscribe_wrote, subscribes, timed_out,
                   received_frame, received_setup, subscribe_args,
                   subscribe_sends, call_steps, codec_vars>>

\* initialize(), lines 53-71: send the session request, start the first wait.
InitializeStart ==
    /\ init_pc \in {"idle", "done", "failed"}
    /\ init_calls < MaxInitCalls
    /\ init_calls' = init_calls + 1
    /\ headers_sent' = headers_sent + 1
    /\ init_pc' = "wait_wt"
    /\ init_error' = "none"
    /\ elapsed' = 0
    /\ call_steps' = <<"send_headers">>
    /\ UNCHANGED <<wt_session, moqt_session, control_stream_id, streams_created,
                   control_out, closed, close_code, close_reason, handler_result,
                   handler_saw_set, moqt_set_count, set_after_client_setup,
                   setups_dispatched, subscribe_result, subscribe_state,
                   subscribe_wrote, subscribes, timed_out,
                   received_frame, received_setup, subscribe_args,
                   subscribe_sends, codec_vars>>

\* The flag the running wait_for waits on, and its timeout.
WaitedFlag == IF init_pc = "wait_wt" THEN wt_session ELSE moqt_session

WaitTimeout == IF init_pc = "wait_wt" THEN TransportTimeout ELSE HandshakeTimeout

\* A time-unit passes while initialize() is suspended in a wait_for.
Tick ==
    /\ init_pc \in {"wait_wt", "wait_moqt"}
    /\ ~WaitedFlag
    /\ elapsed < WaitTimeout
    /\ elapsed' = elapsed + 1
    /\ UNCHANGED <<wt_session, moqt_session, control_stream_id, streams_created,
                   headers_sent, control_out, closed, close_code, close_reason,
                   init_pc, init_error, init_calls, handler_result,
                   handler_saw_set, moqt_set_count, set_after_client_setup,
                   setups_dispatched, subscribe_result, subscribe_state,
                   subscribe_wrote, subscribes, timed_out,
                   received_frame, received_setup, subscribe_args,
                   subscribe_sends, call_steps, codec_vars>>

\* An except clause that logs the TimeoutError and does not re-raise it:
\* initialize() returns normally.
InitializeTimeout_Swallowing(error) ==
    /\ elapsed = WaitTimeout
    /\ init_pc' = "done"
    /\ init_error' = "none"
    /\ timed_out' = TRUE
    /\ UNCHANGED <<wt_session, moqt_session, control_stream_id, streams_created,
                   headers_sent, control_out, closed, close_code, close_reason,
                   init_calls, elapsed, handler_result, handler_saw_set,
                   moqt_set_count, set_after_client_setup, setups_dispatched,
                   subscribe_result, subscribe_state, subscribe_wrote, subscribes,
                   received_frame, received_setup, subscribe_args,
                   subscribe_sends, call_steps, codec_vars>>

\* What a wait_for that timed out does to the session: the TimeoutError is
\* logged and re-raised, nothing else.
InitializeTimeout(error) ==
    /\ elapsed = WaitTimeout
    /\ init_pc' = "failed"
    /\ init_error' = error
    /\ timed_out' = TRUE
    /\ UNCHANGED <<wt_session, moqt_session, control_stream_id, streams_created,
                   headers_sent, control_out, closed, close_code, close_reason,
                   init_calls, elapsed, handler_result, handler_saw_set,
                   moqt_set_count, set_after_client_setup, setups_dispatched,
                   subscribe_result, subscribe_state, subscribe_wrote, subscribes,
                   received_frame, received_setup, subscribe_args,
                   subscribe_sends, call_steps, codec_vars>>

\* lines 74-78: the wait for _wt_session times out.
InitializeTransportTimeout ==
    /\ init_pc = "wait_wt"
    /\ InitializeTimeout("TransportTimeout")

\* lines 75-93: the wait for _wt_session returns; create the control stream
\* and write ClientSetup(versions=[0xff000007], parameters={}) on it.  The
\* write is a handoff, not a suspension point: the two happen in one step.
InitializeSendClientSetup ==
    /\ init_pc = "wait_wt"
    /\ wt_session
    /\ streams_created' = streams_created + 1
    /\ control_stream_id' = streams_created + 1
    /\ LET frame == ClientSetup_serialize(ClientSetup(CLIENT_SETUP, <<DRAFT_VERSION>>, <<>>))
           sent == send_control_message(control_out, control_stream_id',
                                        "ClientSetup", frame.data)
       IN  control_out' = sent.out
    /\ init_pc' = "wait_moqt"
    /\ elapsed' = 0
    /\ call_steps' = call_steps \o <<"wt_session", "create_stream", "client_setup">>
    /\ UNCHANGED <<wt_session, moqt_session, headers_sent, closed, close_code,
                   close_reason, init_error, init_calls, handler_result,
                   handler_saw_set, moqt_set_count, set_after_client_setup,
                   setups_dispatched, subscribe_result, subscribe_state,
                   subscribe_wrote, subscribes, timed_out,
                   received_frame, received_setup, subscribe_args,
                   subscribe_sends, codec_vars>>

\* lines 95-97: the wait for _moqt_session returns; initialize() returns.
InitializeDone ==
    /\ init_pc = "wait_moqt"
    /\ moqt_session
    /\ init_pc' = "done"
    /\ call_steps' = Append(call_steps, "moqt_session")
    /\ UNCHANGED <<wt_session, moqt_session, control_stream_id, streams_created,
                   headers_sent, control_out, closed, close_code, close_reason,
                   init_error, init_calls, elapsed, handler_result,
                   handler_saw_set, moqt_set_count, set_after_client_setup,
                   setups_dispatched, subscribe_result, subscribe_state,
                   subscribe_wrote, subscribes, timed_out,
                   received_frame, received_setup, subscribe_args,
                   subscribe_sends, codec_vars>>

\* lines 98-100: the wait for _moqt_session times out.
InitializeHandshakeTimeout ==
    /\ init_pc = "wait_moqt"
    /\ InitializeTimeout("HandshakeTimeout")

\* FilterType of moqtypes.py, and an optional bound that was given.
FilterTypes == {"LATEST_GROUP", "LATEST_OBJECT", "ABSOLUTE_START", "ABSOLUTE_RANGE"}

Given == [t |-> "int", v |-> <<>>]

SubscribeCall(filter_type, start_group, start_object, end_group) ==
    [filter_type |-> filter_type, start_group |-> start_group,
     start_object |-> start_object, end_group |-> end_group]

\* The defaults of subscribe()'s signature.
DefaultArgs == SubscribeCall("LATEST_GROUP", None, None, None)

\* The filter and bounds of the subscribe() calls tried.
SubscribeArgs ==
    {DefaultArgs,
     SubscribeCall("ABSOLUTE_START", Given, Given, None),
     SubscribeCall("ABSOLUTE_RANGE", Given, Given, Given),
     SubscribeCall("ABSOLUTE_RANGE", Given, Given, None)}

\* Subscribe(...).serialize(): a filter type that requires bounds refuses a
\* message that omits them; otherwise the frame's bytes (not modelled).
Subscribe_serialize(args) ==
    IF \/ /\ args.filter_type \in {"ABSOLUTE_START", "ABSOLUTE_RANGE"}
          /\ (args.start_group = None \/ args.start_object = None)
       \/ /\ args.filter_type = "ABSOLUTE_RANGE"
          /\ args.end_group = None
    THEN ValueError
    ELSE [t |-> "ok", data |-> <<>>]

\* subscribe() that hands bytes to send_control_message whatever building
\* the message said.
subscribe_Unvalidated(out, stream, args) ==
    LET sent == send_control_message(out, stream, "Subscribe", <<>>)
    IN  [t |-> sent.t, out |-> sent.out, sends |-> 1]

\* subscribe(): the argument Subscribe(...).serialize() is evaluated first;
\* send_control_message is called only with the bytes it returned.
subscribe(out, stream, args) ==
    LET message == Subscribe_serialize(args)
    IN  IF IsError(message) THEN [t |-> "error", out |-> out, sends |-> 0]
        ELSE LET sent == send_control_message(out, stream, "Subscribe", message.data)
             IN  [t |-> sent.t, out |-> sent.out, sends |-> 1]

\* A subscribe(namespace, track_name, filter_type=..., start_group=...,
\* start_object=..., end_group=...) call.
Subscribe ==
    /\ subscribes < MaxSubscribes
    /\ subscribes' = subscribes + 1
    /\ subscribe_state' = SessionState
    /\ \E args \in SubscribeArgs :
           LET r == subscribe(control_out, control_stream_id, args)
           IN  /\ subscribe_args' = args
               /\ control_out' = r.out
               /\ subscribe_result' = r.t
               /\ subscribe_wrote' = (Len(r.out) > Len(control_out))
               /\ subscribe_sends' = r.sends
    /\ UNCHANGED <<wt_session, moqt_session, control_stream_id, streams_created,
                   headers_sent, closed, close_code, close_reason, init_pc,
                   init_error, init_calls, elapsed, handler_result,
                   handler_saw_set, moqt_set_count, set_after_client_setup,
                   setups_dispatched, timed_out, received_frame, received_setup,
                   call_steps, codec_vars>>

SessionInit ==
    /\ wt_session = FALSE
    /\ moqt_session = FALSE
    /\ control_stream_id = NoStream
    /\ streams_created = 0
    /\ headers_sent = 0
    /\ control_out = <<>>
    /\ closed = FALSE
    /\ close_code = ""
    /\ close_reason = ""
    /\ init_pc = "idle"
    /\ init_error = "none"
    /\ init_calls = 0
    /\ elapsed = 0
    /\ handler_result = "none"
    /\ handler_saw_set = FALSE
    /\ moqt_set_count = 0
    /\ set_after_client_setup = FALSE
    /\ setups_dispatched = 0
    /\ subscribe_result = "none"
    /\ subscribe_state = "none"
    /\ subscribe_wrote = FALSE
    /\ subscribes = 0
    /\ timed_out = FALSE
    /\ received_frame = <<>>
    /\ received_setup = None
    /\ subscribe_args = None
    /\ subscribe_sends = 0
    /\ call_steps = <<>>

CodecIdle ==
    /\ c_msg = None
    /\ c_wire = None
    /\ c_decoded = None
    /\ c_reencoded = None
    /\ c_phase = "idle"

Init == SessionInit /\ CodecIdle

Next ==
    \/ InitializeStart
    \/ WtSessionReady
    \/ Tick
    \/ InitializeTransportTimeout
    \/ InitializeSendClientSetup
    \/ InitializeDone
    \/ InitializeHandshakeTimeout
    \/ DispatchServerSetup
    \/ Subscribe

Spec == Init /\ [][Next]_vars

----------------------------------------------------------------------------
\* The codec applied to messages drawn from bounded sets.

VersionValues == {<<1>>, DRAFT_VERSION}

ParamKeys == {NatToNum(CLIENT_ROLE), NatToNum(MAX_SUBSCRIBER_ID), <<33>>}

ParamBytes == {<<>>, <<10>>, <<1, 2>>}

SeqsUpTo(S, n) == UNION {[1..k -> S] : k \in 0..n}

ParameterMaps ==
    {d \in SeqsUpTo([k : ParamKeys, v : {BytesVal(b) : b \in ParamBytes}], MaxParams) :
        \A i, j \in 1..Len(d) : i # j => d[i].k # d[j].k}

ClientSetups ==
    {ClientSetup(CLIENT_SETUP, vs, d) : vs \in SeqsUpTo(VersionValues, MaxVersions),
                                        d \in ParameterMaps}

ServerSetups ==
    {ServerSetup(SERVER_SETUP, v, d) : v \in VersionValues, d \in ParameterMaps}

CodecInit ==
    /\ SessionInit
    /\ c_msg \in ClientSetups \cup ServerSetups
    /\ c_wire = None
    /\ c_decoded = None
    /\ c_reencoded = None
    /\ c_phase = "new"

\* c_msg.serialize()
SerializeMsg ==
    /\ c_phase = "new"
    /\ c_wire' = Serialize(c_msg)
    /\ c_phase' = "serialized"
    /\ UNCHANGED <<c_msg, c_decoded, c_reencoded, session_vars>>

\* Strip the frame and call the class's deserialize on the payload.
DeserializePayload ==
    /\ c_phase = "serialized"
    /\ ~IsError(c_wire)
    /\ LET payload == StripFrame(c_wire.data)
       IN  c_decoded' = IF IsError(payload) THEN payload
                        ELSE Deserialize(c_msg.kind, payload.val)
    /\ c_phase' = "decoded"
    /\ UNCHANGED <<c_msg, c_wire, c_reencoded, session_vars>>

\* serialize() called on the message deserialize returned.
ReserializeDecoded ==
    /\ c_phase = "decoded"
    /\ c_decoded.t = "msg"
    /\ c_reencoded' = Serialize(c_decoded)
    /\ c_phase' = "reencoded"
    /\ UNCHANGED <<c_msg, c_wire, c_decoded, session_vars>>

CodecNext == SerializeMsg \/ DeserializePayload \/ ReserializeDecoded

CodecSpec == CodecInit /\ [][CodecNext]_vars

\* The same steps on every message class, constructed with any type
\* argument, and on setups whose encoding passes 32 bytes.

TypeArgs == {0, CLIENT_SETUP, SERVER_SETUP, GOAWAY}

UriChars == {97, 233}       \* "a" (one byte in UTF-8), e-acute (two bytes)

Uris == {[i \in 1..n |-> c] : n \in 0..MaxUriLen, c \in UriChars}

GoAways == {GoAway(ty, uri) : ty \in TypeArgs, uri \in Uris}

LongValue == [i \in 1..32 |-> 0]

LargeSetups ==
    {ClientSetup(CLIENT_SETUP, [i \in 1..4 |-> DRAFT_VERSION], <<>>),
     ClientSetup(CLIENT_SETUP, [i \in 1..3 |-> DRAFT_VERSION],
                 <<[k |-> <<33>>, v |-> BytesVal(<<1, 2>>)]>>),
     ClientSetup(CLIENT_SETUP, <<DRAFT_VERSION>>,
                 <<[k |-> <<33>>, v |-> BytesVal(LongValue)]>>),
     ServerSetup(SERVER_SETUP, DRAFT_VERSION,
                 <<[k |-> <<33>>, v |-> BytesVal(LongValue)]>>)}

FrameInit ==
    /\ SessionInit
    /\ c_msg \in {ClientSetup(ty, vs, d) : ty \in TypeArgs,
                                          vs \in SeqsUpTo(VersionValues, MaxVersions),
                                          d \in ParameterMaps}
               \cup {ServerSetup(ty, v, d) : ty \in TypeArgs, v \in VersionValues,
                                            d \in ParameterMaps}
               \cup GoAways \cup LargeSetups
    /\ c_wire = None
    /\ c_decoded = None
    /\ c_reencoded = None
    /\ c_phase = "new"

FrameSpec == FrameInit /\ [][CodecNext]_vars

----------------------------------------------------------------------------
\* Claims about the session, checked under Spec.

\* C1: a ServerSetup dispatched while _moqt_session is set closes the session
\* with PROTOCOL_VIOLATION and a reason, the handler raises instead of
\* returning, and the flag is not set again; the flag is set at most once.
C1_DuplicateServerSetup ==
    [][/\ moqt_set_count' <= 1
       /\ (setups_dispatched' # setups_dispatched /\ moqt_session) =>
              /\ closed'
              /\ close_code' = "PROTOCOL_VIOLATION"
              /\ close_reason' # ""
              /\ handler_result' = "raised"
              /\ moqt_set_count' = moqt_set_count]_vars

\* A duplicate ServerSetup has been dispatched and refused.
C1_Witness ==
    /\ handler_saw_set
    /\ handler_result = "raised"
    /\ closed
    /\ moqt_set_count = 1
    /\ setups_dispatched >= 2

\* C2: the session is Established only if the ServerSetup that set
\* _moqt_session was dispatched after ClientSetup was written.
C2_NoEstablishBeforeClientSetup ==
    SessionState = "Established" => set_after_client_setup

\* C3: subscribe() called in a state other than Established fails, writes
\* nothing and changes nothing.
C3_SubscribeNeedsEstablished ==
    subscribe_state \notin {"none", "Established"} =>
        (subscribe_result = "error" /\ ~subscribe_wrote)

\* C4: the wait for ServerSetup lasts at most HandshakeTimeout time-units, and
\* an initialize() that failed with the handshake timeout leaves the session
\* Closed.
C4_HandshakeTimeoutCloses ==
    /\ init_pc = "wait_moqt" => elapsed <= HandshakeTimeout
    /\ (init_pc = "failed" /\ init_error = "HandshakeTimeout") =>
           SessionState = "Closed"

\* C5: an initialize() that failed with the transport timeout leaves the
\* session Closed, having created no control stream and written no
\* ClientSetup.
C5_TransportTimeoutCloses ==
    /\ init_pc = "wait_wt" => elapsed <= TransportTimeout
    /\ (init_calls = 1 /\ init_pc = "failed" /\ init_error = "TransportTimeout") =>
           /\ SessionState = "Closed"
           /\ streams_created = 0
           /\ control_stream_id = NoStream
           /\ ~ClientSetupWritten

\* C6: once the session was closed, by a violation or by a timeout of
\* initialize(), no later step makes it Established.
C6_ClosedAbsorbing ==
    [][((closed \/ timed_out) /\ SessionState # "Established") =>
           SessionState' # "Established"]_vars

\* C7: a readiness flag that is set stays set.
C7_FlagsMonotonic ==
    [][(wt_session => wt_session') /\ (moqt_session => moqt_session')]_vars

\* Both flags are set, the violation branch of the handler has run, and
\* subscribe() and a second initialize() were called afterwards.
C7_Witness ==
    /\ wt_session /\ moqt_session
    /\ closed /\ handler_result = "raised"
    /\ subscribes > 0
    /\ init_calls = 2

\* C8: at most one control stream is ever created and at most one ClientSetup
\* is ever written, however often initialize() is called.
C8_SingleControlStream ==
    streams_created <= 1 /\ ClientSetupsWritten <= 1

\* C13: when the server answers the ClientSetup written by initialize() with
\* ServerSetup(selected_version=0xff000007, parameters={0x02: varint(10)}),
\* the session is Established and the decoded parameters[0x02] is the int 10;
\* whatever ServerSetup arrives, its MAX_SUBSCRIBER_ID parameter is stored as
\* the int its varint-encoded value holds, not as the bytes.
C13_MaxSubscriberIdDecoded ==
    /\ \A i \in 1..Len(control_out) :
           control_out[i].kind = "ClientSetup" =>
               control_out[i].data =
                   ClientSetup_serialize(ClientSetup(CLIENT_SETUP, <<DRAFT_VERSION>>, <<>>)).data
    /\ (/\ set_after_client_setup
        /\ handler_result = "returned"
        /\ received_frame = ServerSetup_serialize(ScenarioServerSetup).data) =>
           /\ SessionState = "Established"
           /\ received_setup.kind = "ServerSetup"
           /\ received_setup.selected_version = DRAFT_VERSION
           /\ DictKeys(received_setup.parameters) = {NatToNum(MAX_SUBSCRIBER_ID)}
           /\ DictGet(received_setup.parameters, NatToNum(MAX_SUBSCRIBER_ID)) = IntVal(<<10>>)
    /\ \A m \in ServerAnswers :
           received_frame = ServerSetup_serialize(m).data =>
               \A i \in 1..Len(m.parameters) :
                   m.parameters[i].k = NatToNum(MAX_SUBSCRIBER_ID) =>
                       DictGet(received_setup.parameters, m.parameters[i].k) =
                           IntVal(PullUintVar(m.parameters[i].v.v, 1).val)

\* initialize() returned after the server answered its ClientSetup with the
\* ServerSetup carrying MAX_SUBSCRIBER_ID = 10.
C13_Witness ==
    /\ init_pc = "done"
    /\ set_after_client_setup
    /\ handler_result = "returned"
    /\ received_frame = ServerSetup_serialize(ScenarioServerSetup).data
    /\ SessionState = "Established"

InitializeOrder ==
    <<"send_headers", "wt_session", "create_stream", "client_setup", "moqt_session">>

StepsUpTo(step) ==
    SubSeq(InitializeOrder, 1, CHOOSE i \in 1..Len(InitializeOrder) : InitializeOrder[i] = step)

\* ClientSetup messages written on the control stream of the current call.
ClientSetupsOnStream ==
    Cardinality({i \in 1..Len(control_out) :
                    /\ control_out[i].kind = "ClientSetup"
                    /\ control_out[i].stream = control_stream_id})

\* C17: one initialize() call sends the session request, sees _wt_session
\* set, creates the control stream, writes exactly one ClientSetup on it and
\* sees _moqt_session set, in this order; it returns only with both flags
\* set, and a call that failed raised to its caller at the step that failed,
\* having executed none of the later steps.
C17_InitializeOrder ==
    /\ init_pc = "idle" => call_steps = <<>>
    /\ init_pc = "wait_wt" => call_steps = StepsUpTo("send_headers")
    /\ init_pc = "wait_moqt" =>
           /\ call_steps = StepsUpTo("client_setup")
           /\ wt_session
           /\ control_stream_id = streams_created
           /\ ClientSetupsOnStream = 1
    /\ init_pc = "done" =>
           /\ call_steps = InitializeOrder
           /\ wt_session /\ moqt_session
           /\ ClientSetupsOnStream = 1
           /\ init_error = "none"
    /\ init_pc = "failed" =>
           \/ /\ init_error = "TransportTimeout"
              /\ call_steps = StepsUpTo("send_headers")
           \/ /\ init_error = "HandshakeTimeout"
              /\ call_steps = StepsUpTo("client_setup")
    /\ headers_sent = init_calls

\* An initialize() call failed on a timeout and a later call went through
\* all five steps and returned.
C17_Witness ==
    /\ init_calls = 2
    /\ timed_out
    /\ init_pc = "done"
    /\ call_steps = InitializeOrder

----------------------------------------------------------------------------
\* Claims about the codec, checked under CodecSpec.

\* C9: serialize() of a ClientSetup succeeds, and deserialize on the frame's
\* payload yields a ClientSetup equal to the one serialized.
C9_ClientSetupRoundTrip ==
    /\ (c_phase = "serialized" /\ c_msg.kind = "ClientSetup") => ~IsError(c_wire)
    /\ (c_phase = "decoded" /\ c_msg.kind = "ClientSetup") => MsgEq(c_decoded, c_msg)

\* C10: serialize() of a ServerSetup succeeds, and deserialize on the frame's
\* payload yields a ServerSetup equal to the one serialized.
C10_ServerSetupRoundTrip ==
    /\ (c_phase = "serialized" /\ c_msg.kind = "ServerSetup") => ~IsError(c_wire)
    /\ (c_phase = "decoded" /\ c_msg.kind = "ServerSetup") => MsgEq(c_decoded, c_msg)

\* The frame's type tag, and the payload length it declares against the
\* bytes that follow the length.
FrameType(frame) == PullUintVar(frame, 1)

FrameDeclaredLength(frame) == PullUintVar(frame, FrameType(frame).pos)

FrameBytesAfterLength(frame) == Len(frame) - FrameDeclaredLength(frame).pos + 1

\* The type constant of a message's class.
VariantType(m) ==
    CASE m.kind = "ClientSetup" -> CLIENT_SETUP
      [] m.kind = "ServerSetup" -> SERVER_SETUP
      [] OTHER -> GOAWAY

KnownKeys == {NatToNum(MAX_SUBSCRIBER_ID), NatToNum(CLIENT_ROLE), NatToNum(ENDPOINT_PATH)}

\* Every MAX_SUBSCRIBER_ID value of the message holds a complete varint, so
\* that the payload serialize() makes of it is well formed.
WellFormedParameters(m) ==
    \A i \in 1..Len(m.parameters) :
        m.parameters[i].k = NatToNum(MAX_SUBSCRIBER_ID) =>
            ~IsError(PullUintVar(m.parameters[i].v.v, 1))

IsSetup(m) == m.kind \in {"ClientSetup", "ServerSetup"}

\* C11: serialize() of a GoAway succeeds for every URI, and deserialize on
\* the frame's payload yields a GoAway with the same new_session_uri.
C11_GoAwayRoundTrip ==
    /\ (c_phase = "serialized" /\ c_msg.kind = "GoAway") => ~IsError(c_wire)
    /\ (c_phase = "decoded" /\ c_msg.kind = "GoAway") =>
           (c_decoded.t = "msg" /\ c_decoded.new_session_uri = c_msg.new_session_uri)

\* C12: a frame that serialize() returns starts with the class's type tag,
\* then a length, and the length equals the number of bytes after it.
C12_FrameLengthExact ==
    (c_phase = "serialized" /\ ~IsError(c_wire)) =>
        /\ ~IsError(FrameType(c_wire.data))
        /\ FrameType(c_wire.data).val = NatToNum(VariantType(c_msg))
        /\ ~IsError(FrameDeclaredLength(c_wire.data))
        /\ FrameDeclaredLength(c_wire.data).val =
               NatToNum(FrameBytesAfterLength(c_wire.data))

\* C14: deserializing the payload of a setup that carries parameters with
\* unknown keys returns a message that holds each of them, under its key, with
\* its bytes unchanged.
C14_UnknownKeysKept ==
    (/\ c_phase = "decoded"
     /\ IsSetup(c_msg)
     /\ WellFormedParameters(c_msg)
     /\ \E i \in 1..Len(c_msg.parameters) : c_msg.parameters[i].k \notin KnownKeys) =>
        /\ c_decoded.t = "msg"
        /\ \A i \in 1..Len(c_msg.parameters) :
               c_msg.parameters[i].k \notin KnownKeys =>
                   \E j \in 1..Len(c_decoded.parameters) :
                       c_decoded.parameters[j] = c_msg.parameters[i]

\* C16: ClientSetup.deserialize returns a ClientSetup, never None, whose
\* parameter map has one entry for each declared parameter.
C16_ClientParameterLoopCompletes ==
    (c_phase = "decoded" /\ c_msg.kind = "ClientSetup" /\ WellFormedParameters(c_msg)) =>
        /\ c_decoded.t = "msg"
        /\ Len(c_decoded.parameters) = Len(c_msg.parameters)
        /\ DictKeys(c_decoded.parameters) = DictKeys(c_msg.parameters)

\* C18: a message's type is its class's constant after construction with any
\* type argument, after serialize() and after deserialize.
C18_TypeMatchesVariant ==
    /\ c_msg.type = VariantType(c_msg)
    /\ c_decoded.t = "msg" => c_decoded.type = VariantType(c_decoded)

\* A ClientSetup has been serialized and a ClientSetup has come back from
\* deserialize.
C18_Witness ==
    /\ c_phase = "decoded"
    /\ c_msg.kind = "ClientSetup"
    /\ c_decoded.t = "msg"
    /\ c_decoded.kind = "ClientSetup"

\* C19: serialize() on a setup that deserialize returned succeeds, and its
\* payload deserializes to the same message.
C19_ReencodeTotal ==
    (c_phase = "reencoded" /\ IsSetup(c_decoded)) =>
        /\ ~IsError(c_reencoded)
        /\ MsgEq(Deserialize(c_decoded.kind, StripFrame(c_reencoded.data).val), c_decoded)

\* C20: serialize() of a ClientSetup or ServerSetup returns a frame, whatever
\* the size of the encoding.
C20_SerializeAnySize ==
    (c_phase = "serialized" /\ IsSetup(c_msg)) => c_wire.t = "ok"

====
